---- MODULE Spec2Model ----
(***************************************************************************)
(* rePiX: restoration of a pixelated image (rePiX.cpp), the colour         *)
(* quantizers (ImageAdjustments.cpp) and the pixel buffers they work on    *)
(* (image.cpp, image.hpp).                                                 *)
(*                                                                         *)
(* A colour is the tuple <<b3, b2, b1, b0>> of the four bytes of the       *)
(* packed 32-bit value, most significant byte first (A, R, G, B in          *)
(* ImageAdjustments.cpp).  A float that holds a block size is kept as an   *)
(* integer number of 1/FX units; every value the model produces is a       *)
(* dyadic rational that a 32-bit float holds exactly, so float arithmetic  *)
(* on it is exact.  The floats of postorize are not dyadic and are         *)
(* computed bit-exactly as IEEE-754 binary32 (F32Div, F32Mul).             *)
(***************************************************************************)
EXTENDS Integers, Sequences, FiniteSets, TLC

VARIABLES originalImage, newImage, blockSize, samplePointSize, scale,
          width, height, margin, colorTable, leaked, status, hist, calls,
          cli, outFile, lib

\* the rePiX object and the record of the calls made on it
object == <<originalImage, newImage, blockSize, samplePointSize, scale,
            width, height, margin, colorTable, leaked, status, hist, calls>>

vars == <<object, cli, outFile, lib>>

\* ------------------------------------------------------------------ bounds
MaxWidth == 4
MaxHeight == 2
MaxBlock == 2
MaxMargin == 1
MaxSample == 2
MaxCalls == 3

\* ------------------------------------------------------- program constants
FX == 8
U16 == 65536
\* the null pointer; it has none of the fields of a TImage
NULL == [nullptr |-> TRUE]
Zero == <<0, 0, 0, 0>>

\* ------------------------------------------------------------------ inputs
SrcColors == << <<255, 200, 100, 50>>, <<255, 10, 20, 30>>,
                <<128, 255, 0, 255>>, <<255, 46, 37, 255>> >>

\* values passed to setBlockSize: 0.5, 2, 2.5, 3
BlockSizes == {FX \div 2, 2 * FX, (5 * FX) \div 2, 3 * FX}

\* values assigned to the public fields width and height (0 = unset)
TargetDims == {0, 2}

\* ------------------------------------------------------------------ images
\* TImage with 32-bit pixels: data[i] is the pixel at index i of the array.
Pixmap(w, h, px) == [width |-> w, height |-> h, bitWidth |-> 32, data |-> px]

\* a source made of k x k blocks, block (bx, by) of one colour
BlockColor(bx, by) == SrcColors[((bx + 2 * by) % 4) + 1]

BlockImage(w, h, k) ==
    Pixmap(w, h, [i \in 0..(w * h - 1) |-> BlockColor((i % w) \div k, (i \div w) \div k)])

SrcImages == {BlockImage(w, h, k) : w \in 1..MaxWidth, h \in 1..MaxHeight, k \in 1..MaxBlock}

\* ------------------------------------------------------ unsigned arithmetic
\* A 32-bit unsigned value u is kept as the integer of the same bit pattern
\* in two's complement: a negative n stands for 2^32 + n.
U32Less(a, b) ==
    IF a >= 0 THEN (b < 0 \/ a < b) ELSE (b < 0 /\ a < b)

\* conversion to unsigned short
ToU16(n) == n % U16

\* --------------------------------------------------------------- sampling
getPixel(x, y, w, h, pixelData) ==
    IF ~U32Less(x, w) \/ ~U32Less(y, h) THEN Zero ELSE pixelData[x + y * w]

RECURSIVE SumRow(_, _, _, _, _, _, _, _)
\* sum of byte c of getPixel(x + j, y) for j = from .. size - 1
SumRow(c, from, size, x, y, w, h, pixelData) ==
    IF from >= size THEN 0
    ELSE getPixel(x + from, y, w, h, pixelData)[c]
         + SumRow(c, from + 1, size, x, y, w, h, pixelData)

RECURSIVE SumWindow(_, _, _, _, _, _, _, _)
\* sum of byte c over the rows i = from .. size - 1 of the window
SumWindow(c, from, size, x, y, w, h, pixelData) ==
    IF from >= size THEN 0
    ELSE SumRow(c, 0, size, x, y + from, w, h, pixelData)
         + SumWindow(c, from + 1, size, x, y, w, h, pixelData)

\* averageColorForSampleSize without "x -= size / 2; y -= size / 2"
averageColorUncentred(size0, x0, y0, w, h, pixelData) ==
    LET size == IF size0 < 1 THEN 1 ELSE size0
        avarage == size * size
        channel(c) == (SumWindow(c, 0, size, x0, y0, w, h, pixelData) \div avarage) % 256
    IN  <<channel(1), channel(2), channel(3), channel(4)>>

averageColorForSampleSize(size0, x0, y0, w, h, pixelData) ==
    LET size == IF size0 < 1 THEN 1 ELSE size0
        x == x0 - size \div 2
        y == y0 - size \div 2
        avarage == size * size
        channel(c) == (SumWindow(c, 0, size, x, y, w, h, pixelData) \div avarage) % 256
    IN  <<channel(1), channel(2), channel(3), channel(4)>>

\* ----------------------------------------------------------- createPixmap
\* the width and height fields of TImage are uint16_t
createPixmap(w, h) == Pixmap(ToU16(w), ToU16(h), [i \in 0..(ToU16(w) * ToU16(h) - 1) |-> Zero])

\* ------------------------------------------------------------ restoration
\* _blockSize as restorePixelatedImage recomputes it (width first)
EffectiveBlockSize ==
    IF width > 0 THEN (originalImage.width * FX) \div width
    ELSE IF height > 0 THEN (originalImage.height * FX) \div height
    ELSE blockSize

\* number of iterations of "for (x = 0; x < limit; x += bs)"
Iterations(limit, bs) == (limit * FX + bs - 1) \div bs

\* the sample taken at x + _blockSize instead of x + _blockSize / 2
CentreAtBlockEnd(d, bs) == (d * bs + bs) \div FX

\* (unsigned)(x + _blockSize / 2) in iteration d of a loop, x = d * bs
Centre(d, bs) == (2 * d * bs + bs) \div (2 * FX)

\* the last iteration d < n of a loop whose (unsigned short)(d + margin)
\* is the coordinate p, or -1 when no iteration writes p
LastIteration(p, m, n) ==
    LET d0 == (p - m) % U16
    IN  IF d0 >= n THEN -1 ELSE d0 + U16 * ((n - 1 - d0) \div U16)

\* the pixels of _newImage after the two loops of restorePixelatedImage;
\* setImagePixel drops a write outside the width and height fields, and of
\* several writes to one pixel the last one stays
RestoredData(img, bs) ==
    LET nx == Iterations(originalImage.width, bs)
        ny == Iterations(originalImage.height, bs)
    IN  [i \in DOMAIN img.data |->
            LET dx == LastIteration(i % img.width, margin, nx)
                dy == LastIteration(i \div img.width, margin, ny)
            IN  IF dx < 0 \/ dy < 0 THEN img.data[i]
                ELSE averageColorForSampleSize(samplePointSize,
                        Centre(dx, bs), Centre(dy, bs),
                        originalImage.width, originalImage.height,
                        originalImage.data)]

\* ------------------------------------------------- IEEE-754 binary32 floats
\* A positive float is <<m, e>> with value m * 2^e and 2^23 <= m < 2^24;
\* zero is <<0, 0>>.  Every intermediate value stays below 2^31.
Pow2(n) == 2^n

RECURSIVE F32Normal(_, _)
F32Normal(m, e) == IF m >= Pow2(23) THEN <<m, e>> ELSE F32Normal(2 * m, e - 1)

\* (float)n for an integer 0 <= n < 2^24: exact
F32FromInt(n) == IF n = 0 THEN <<0, 0>> ELSE F32Normal(n, 0)

\* round to nearest, ties to even: q is the truncated 24-bit significand,
\* twiceRest and unit compare the discarded part with one half
F32Rounded(q, e, twiceRest, unit) ==
    LET up == twiceRest > unit \/ (twiceRest = unit /\ q % 2 = 1)
        q1 == IF up THEN q + 1 ELSE q
    IN  IF q1 = Pow2(24) THEN <<Pow2(23), e + 1>> ELSE <<q1, e>>

RECURSIVE DivBits(_, _, _, _)
\* n more quotient bits of r / d by long division, r < d
DivBits(r, d, n, q) ==
    IF n = 0 THEN <<q, r>>
    ELSE IF 2 * r >= d THEN DivBits(2 * r - d, d, n - 1, 2 * q + 1)
         ELSE DivBits(2 * r, d, n - 1, 2 * q)

\* a / b, b not zero
F32Div(a, b) ==
    IF a[1] = 0 THEN <<0, 0>>
    ELSE IF a[1] >= b[1]
         THEN LET qr == DivBits(a[1] - b[1], b[1], 23, 1)
              IN  F32Rounded(qr[1], a[2] - b[2] - 23, 2 * qr[2], b[1])
         ELSE LET qr == DivBits(a[1], b[1], 24, 0)
              IN  F32Rounded(qr[1], a[2] - b[2] - 24, 2 * qr[2], b[1])

\* a * b: the 48-bit product of the significands from 12-bit halves
F32Mul(a, b) ==
    IF a[1] = 0 \/ b[1] = 0 THEN <<0, 0>>
    ELSE LET ah == a[1] \div 4096
             al == a[1] % 4096
             bh == b[1] \div 4096
             bl == b[1] % 4096
             mid == ah * bl + al * bh
             losum == al * bl + (mid % 4096) * 4096
             lo == losum % Pow2(24)
             hi == ah * bh + mid \div 4096 + losum \div Pow2(24)
         IN  IF hi >= Pow2(23)
             THEN F32Rounded(hi, a[2] + b[2] + 24, 2 * lo, Pow2(24))
             ELSE F32Rounded(2 * hi + lo \div Pow2(23), a[2] + b[2] + 23,
                             2 * (lo % Pow2(23)), Pow2(23))

\* round(): to the nearest integer, halves away from zero (values < 2^24)
F32Round(a) ==
    IF a[2] >= 0 THEN a[1] * Pow2(a[2])
    ELSE IF a[2] < -24 THEN 0
    ELSE LET d == Pow2(-a[2])
         IN  a[1] \div d + (IF 2 * (a[1] % d) >= d THEN 1 ELSE 0)

\* conversion of a float to an unsigned integer: truncation (values < 2^24)
F32Trunc(a) ==
    IF a[2] >= 0 THEN a[1] * Pow2(a[2])
    ELSE IF a[2] < -24 THEN 0
    ELSE a[1] \div Pow2(-a[2])

\* ------------------------------------------------------------ colour table
\* ColorTable(): 256 zero entries, _defined = 0, _transparency = -1
DefaultColorTable ==
    [colors |-> [n \in 0..255 |-> Zero], defined |-> 0, transparency |-> -1]

\* the program main() of main.cpp is not running
NoProcess == [pc |-> "none"]

\* lib is the last call of a function of image.cpp or ColorTable.cpp made
\* outside a rePiX object: its name, arguments, result and memory accesses;
\* no such call has been made
NoCall == [op |-> "none"]

\* ---------------------------------------------------------------- history
\* the last call, the working buffer before it and its argument
History(op, pre, arg) == [op |-> op, pre |-> pre, arg |-> arg]

\* ------------------------------------------------------------------- Init
\* a rePiX object after construction and loadPixelatedImage;
\* _samplePointSize has no initialiser
InitWith(images) ==
    /\ originalImage \in images
    /\ newImage = NULL
    /\ blockSize = FX
    /\ samplePointSize \in 0..MaxSample
    /\ width = 0
    /\ height = 0
    /\ margin = 0
    /\ colorTable = DefaultColorTable
    /\ scale = 1
    /\ leaked = 0
    /\ cli = NoProcess
    /\ outFile = "untouched"
    /\ lib = NoCall
    /\ status = "running"
    /\ hist = History("new", NULL, 0)
    /\ calls = 0

Init == InitWith(SrcImages)

Call(op, pre, arg) ==
    /\ status = "running"
    /\ calls < MaxCalls
    /\ calls' = calls + 1
    /\ hist' = History(op, pre, arg)

\* ---------------------------------------------------------------- setters
setBlockSize(value) ==
    /\ Call("set", NULL, 0)
    /\ blockSize' = IF value < FX THEN FX ELSE value
    /\ UNCHANGED <<originalImage, newImage, samplePointSize, width, height,
                   margin, colorTable, status,
                   scale, leaked, cli, outFile, lib>>

setSamplePointSize(size) ==
    /\ Call("set", NULL, 0)
    /\ samplePointSize' = size
    /\ UNCHANGED <<originalImage, newImage, blockSize, width, height,
                   margin, colorTable, status,
                   scale, leaked, cli, outFile, lib>>

\* the public fields width, height and margin are assigned directly
setWidth(value) ==
    /\ Call("set", NULL, 0)
    /\ width' = value
    /\ UNCHANGED <<originalImage, newImage, blockSize, samplePointSize, height,
                   margin, colorTable, status,
                   scale, leaked, cli, outFile, lib>>

setHeight(value) ==
    /\ Call("set", NULL, 0)
    /\ height' = value
    /\ UNCHANGED <<originalImage, newImage, blockSize, samplePointSize, width,
                   margin, colorTable, status,
                   scale, leaked, cli, outFile, lib>>

setMargin(value) ==
    /\ Call("set", NULL, 0)
    /\ margin' = value
    /\ UNCHANGED <<originalImage, newImage, blockSize, samplePointSize, width,
                   height, colorTable, status,
                   scale, leaked, cli, outFile, lib>>

\* ------------------------------------------------- restorePixelatedImage
\* the buffers without an owner once the pointer to image is overwritten
\* without reset(image)
Unreleased(image) == IF image = NULL THEN leaked ELSE leaked + 1

\* allocated: whether malloc and calloc of createPixmap return memory.
\* Without a buffer the first setImagePixel dereferences the null pointer.
restorePixelatedImage(allocated) ==
    LET bs == EffectiveBlockSize
        w == (originalImage.width * FX) \div bs + margin * 2
        h == (originalImage.height * FX) \div bs + margin * 2
        img == createPixmap(w, h)
    IN  /\ Call("restorePixelatedImage", NULL, bs)
        /\ blockSize' = bs
        /\ newImage' = IF allocated THEN Pixmap(img.width, img.height, RestoredData(img, bs)) ELSE NULL
        /\ status' = IF allocated THEN status ELSE "crashed"
        /\ leaked' = Unreleased(newImage)
        /\ UNCHANGED <<originalImage, samplePointSize, width, height, margin,
                       colorTable, scale, cli, outFile, lib>>

\* the calls of a restoration, the margin drawn from margins
RestoreCalls(margins) ==
    \/ \E value \in BlockSizes : setBlockSize(value)
    \/ \E size \in 0..MaxSample : setSamplePointSize(size)
    \/ \E value \in TargetDims : setWidth(value)
    \/ \E value \in TargetDims : setHeight(value)
    \/ \E value \in margins : setMargin(value)
    \/ \E allocated \in BOOLEAN : restorePixelatedImage(allocated)

NextRestore == RestoreCalls(0..MaxMargin)

Spec == Init /\ [][NextRestore]_vars

\* Margins for which floor(W/b) + 2*margin no longer fits the uint16_t
\* width and height fields.  createPixmap then multiplies w * h * 4 as int,
\* which overflows: the size that calloc is asked for is not determined, so
\* both outcomes of the allocation are possible.
WideMargins == {0, U16 \div 2}

NextWide == RestoreCalls(WideMargins)

SpecWide == Init /\ [][NextWide]_vars

\* -------------------------------------------------------------- postorize
ColorRGB(r, g, b) == [r |-> r, g |-> g, b |-> b]

convertFromPackedRGB(color) ==
    ColorRGB(F32Div(F32FromInt(color[2]), F32FromInt(255)),
             F32Div(F32FromInt(color[3]), F32FromInt(255)),
             F32Div(F32FromInt(color[4]), F32FromInt(255)))

\* round(value / step) * step, step = 1.0f / (float)(levels - 1)
postorizeChannel(value, levels) ==
    LET step == F32Div(F32FromInt(1), F32FromInt(levels - 1))
    IN  F32Mul(F32FromInt(F32Round(F32Div(value, step))), step)

posterizeRGB(colorRGB, levels) ==
    ColorRGB(postorizeChannel(colorRGB.r, levels),
             postorizeChannel(colorRGB.g, levels),
             postorizeChannel(colorRGB.b, levels))

\* a << 24 | r << 16 | g << 8 | b; no byte exceeds 255 here
convertToPackedRGB(colorRGB, alpha) ==
    << F32Trunc(F32Mul(alpha, F32FromInt(255))),
       F32Trunc(F32Mul(colorRGB.r, F32FromInt(255))),
       F32Trunc(F32Mul(colorRGB.g, F32FromInt(255))),
       F32Trunc(F32Mul(colorRGB.b, F32FromInt(255))) >>

\* mutant: the alpha byte of the pixel is kept
PostorizePixelKeepingAlpha(color, levels) ==
    LET packed == convertToPackedRGB(posterizeRGB(convertFromPackedRGB(color),
                                                  levels), F32FromInt(1))
    IN  <<color[1], packed[2], packed[3], packed[4]>>

\* the body of the loop of ImageAdjustments::postorize
PostorizePixel(color, levels) ==
    convertToPackedRGB(posterizeRGB(convertFromPackedRGB(color), levels), F32FromInt(1))

\* ImageAdjustments::postorize over the length pixels of the buffer
Postorized(pixels, levels) == [i \in DOMAIN pixels |-> PostorizePixel(pixels[i], levels)]

\* -------------------------------------------------------- colour distance
\* (unsigned) sqrt(n): the integer part of the square root
RECURSIVE SqrtBetween(_, _, _)
\* the k with lo <= k < hi and k * k <= n < (k + 1) * (k + 1)
SqrtBetween(n, lo, hi) ==
    IF hi - lo <= 1 THEN lo
    ELSE LET mid == (lo + hi) \div 2
         IN  IF mid * mid <= n THEN SqrtBetween(n, mid, hi) ELSE SqrtBetween(n, lo, mid)

TruncatedSqrt(n) == SqrtBetween(n, 0, 512)

SquaredDistance(color1, color2) ==
    (color1[2] - color2[2]) * (color1[2] - color2[2])
    + (color1[3] - color2[3]) * (color1[3] - color2[3])
    + (color1[4] - color2[4]) * (color1[4] - color2[4])

colorDistance(color1, color2) == TruncatedSqrt(SquaredDistance(color1, color2))

\* -------------------------------------------------------- normalizeColors
\* mutant: baseColor & 0xFF
KeyLowByte(color) == <<color[4]>>

\* baseColor & 0xFFFFFF
Key(color) == <<color[2], color[3], color[4]>>

\* mutant: the inner test with "colorDistance(...) <= threshold"
NormalizeStepInclusive(st, i, threshold) ==
    LET baseColor == st.colors[i]
    IN  IF Key(baseColor) \in st.buckets THEN st
        ELSE [colors |-> [j \in DOMAIN st.colors |->
                            IF colorDistance(baseColor, st.colors[j]) <= threshold /\ j # i
                            THEN baseColor ELSE st.colors[j]],
              buckets |-> st.buckets \cup {Key(baseColor)}]

\* One iteration of the loop over the pixels, at pixel i.  buckets is the set
\* of keys whose count is >= 1.  The inner loop reads and writes colors[j]
\* only, so it is a map over j.
NormalizeStep(st, i, threshold) ==
    LET baseColor == st.colors[i]
    IN  IF Key(baseColor) \in st.buckets THEN st
        ELSE [colors |-> [j \in DOMAIN st.colors |->
                            IF colorDistance(baseColor, st.colors[j]) < threshold /\ j # i
                            THEN baseColor ELSE st.colors[j]],
              buckets |-> st.buckets \cup {Key(baseColor)}]

RECURSIVE NormalizeUpTo(_, _, _)
\* colors and buckets after the iterations at pixels 0 .. n - 1
NormalizeUpTo(pixels, n, threshold) ==
    IF n = 0 THEN [colors |-> pixels, buckets |-> {}]
    ELSE NormalizeStep(NormalizeUpTo(pixels, n - 1, threshold), n - 1, threshold)

\* mutant: a recoloured pixel gets the 24-bit key of the representative,
\* without its alpha byte
NormalizedToKeys(pixels, w, h, threshold) ==
    LET colors == NormalizeUpTo(pixels, w * h, threshold).colors
    IN  [j \in DOMAIN pixels |->
            IF colors[j] = pixels[j] THEN pixels[j]
            ELSE <<0, colors[j][2], colors[j][3], colors[j][4]>>]

Normalized(pixels, w, h, threshold) == NormalizeUpTo(pixels, w * h, threshold).colors

\* ----------------------------------------------- mapColorsToNearestPalette
RECURSIVE NearestFrom(_, _, _, _, _, _)
\* the loop over n .. paletteSize - 1: the matched colour
NearestFrom(baseColor, palt, n, paletteSize, distance, matchedColor) ==
    IF n >= paletteSize THEN matchedColor
    ELSE IF colorDistance(baseColor, palt[n]) < distance
         THEN NearestFrom(baseColor, palt, n + 1, paletteSize,
                          colorDistance(baseColor, palt[n]), palt[n])
         ELSE NearestFrom(baseColor, palt, n + 1, paletteSize, distance, matchedColor)

\* mutant: the search starts from entry 0 as the first match
MatchedColorFromFirst(baseColor, palt, paletteSize) ==
    NearestFrom(baseColor, palt, 1, paletteSize,
                colorDistance(baseColor, palt[0]), palt[0])

\* the colour matched for a pixel, before the transparency test
MatchedColor(baseColor, palt, paletteSize) ==
    NearestFrom(baseColor, palt, 0, paletteSize, 256, baseColor)

\* mutant: the transparency test with "transparencyIndex > 0"
MapPixelPositiveIndex(baseColor, palt, paletteSize, transparencyIndex) ==
    LET matchedColor == MatchedColor(baseColor, palt, paletteSize)
    IN  IF transparencyIndex > 0 /\ matchedColor = palt[transparencyIndex]
        THEN Zero ELSE matchedColor

MapPixel(baseColor, palt, paletteSize, transparencyIndex) ==
    LET matchedColor == MatchedColor(baseColor, palt, paletteSize)
    IN  IF transparencyIndex >= 0 /\ matchedColor = palt[transparencyIndex]
        THEN Zero ELSE matchedColor

Mapped(pixels, palt, paletteSize, transparencyIndex) ==
    [i \in DOMAIN pixels |-> MapPixel(pixels[i], palt, paletteSize, transparencyIndex)]

\* ------------------------------------------------- the quantizer of rePiX
\* rePiX::postorize returns at once without a buffer
postorize(levels) ==
    /\ Call("postorize", newImage, levels)
    /\ newImage' = IF newImage = NULL THEN newImage
                   ELSE [newImage EXCEPT !.data = Postorized(newImage.data, levels)]
    /\ UNCHANGED <<originalImage, blockSize, samplePointSize, width, height,
                   margin, colorTable, status,
                   scale, leaked, cli, outFile, lib>>

\* the float threshold is converted to the unsigned parameter of
\* ImageAdjustments::normalizeColors; without a buffer _newImage->data
\* dereferences the null pointer
normalizeColors(threshold) ==
    /\ Call("normalizeColors", newImage, threshold \div FX)
    /\ IF newImage = NULL
       THEN /\ status' = "crashed"
            /\ newImage' = newImage
       ELSE /\ status' = status
            /\ newImage' = [newImage EXCEPT !.data =
                   Normalized(newImage.data, newImage.width, newImage.height,
                              threshold \div FX)]
    /\ UNCHANGED <<originalImage, blockSize, samplePointSize, width, height,
                   margin, colorTable, scale, leaked, cli, outFile, lib>>

normalizeColorsToColorTable ==
    /\ Call("normalizeColorsToColorTable", newImage, 0)
    /\ IF newImage = NULL
       THEN /\ status' = "crashed"
            /\ newImage' = newImage
       ELSE /\ status' = status
            /\ newImage' = [newImage EXCEPT !.data =
                   Mapped(newImage.data, colorTable.colors, colorTable.defined,
                          colorTable.transparency)]
    /\ UNCHANGED <<originalImage, blockSize, samplePointSize, width, height,
                   margin, colorTable, scale, leaked, cli, outFile, lib>>

\* ---------------------------------------------------- quantizer: inputs
MaxPixels == 2

Black == <<255, 0, 0, 0>>
QuantColors == {Zero, <<255, 46, 37, 255>>, <<255, 10, 20, 30>>, <<128, 11, 20, 30>>}

\* buffers of one row
QuantImages ==
    UNION {{Pixmap(n, 1, px) : px \in [0..(n - 1) -> QuantColors]} : n \in 1..MaxPixels}

Levels == {2, 26, 132}

\* thresholds passed to rePiX::normalizeColors: 1.5, 2
Thresholds == {(3 * FX) \div 2, 2 * FX}

\* a colour table with the first entries given and the rest 0
ColorTableOf(entries, defined, transparency) ==
    [colors |-> [n \in 0..255 |-> IF n < Len(entries) THEN entries[n + 1] ELSE Zero],
     defined |-> defined, transparency |-> transparency]

PaletteEntries == <<Black, <<255, 12, 21, 30>>, <<255, 10, 20, 30>>,
                    <<255, 12, 20, 30>>, <<255, 10, 20, 30>>>>

\* tables of 3, 5 and 1 defined colours; transparency: none, 4 and 0;
\* and the table no file has been loaded into
ColorTables == {ColorTableOf(PaletteEntries, 3, -1),
                ColorTableOf(PaletteEntries, 5, 4),
                ColorTableOf(PaletteEntries, 1, 0),
                DefaultColorTable}

\* a rePiX object after loadPixelatedImage, setSamplePointSize(1) and
\* restorePixelatedImage with the default block size and no margin, and a
\* colour table that has been loaded or left as constructed
InitQuant ==
    /\ originalImage \in QuantImages
    /\ blockSize = FX
    /\ samplePointSize = 1
    /\ width = 0
    /\ height = 0
    /\ margin = 0
    /\ newImage = [createPixmap(originalImage.width, originalImage.height)
                     EXCEPT !.data = RestoredData(createPixmap(originalImage.width,
                                                     originalImage.height), FX)]
    /\ colorTable \in ColorTables
    /\ scale = 1
    /\ leaked = 0
    /\ cli = NoProcess
    /\ outFile = "untouched"
    /\ lib = NoCall
    /\ status = "running"
    /\ hist = History("restorePixelatedImage", NULL, FX)
    /\ calls = 1

NextQuant ==
    \/ \E levels \in Levels : postorize(levels)
    \/ \E threshold \in Thresholds : normalizeColors(threshold)
    \/ normalizeColorsToColorTable

SpecQuant == InitQuant /\ [][NextQuant]_vars

\* ------------------------------------------- normalizeColors: inputs
\* the most pixels of a buffer to normalize
MaxNormPixels == 3

\* colours in a row, each at distance 1 from the next, and a colour with
\* the RGB value of the first and another alpha
NormColors == {<<255, 10, 20, 30>>, <<128, 11, 20, 30>>, <<255, 12, 20, 30>>,
               <<255, 13, 20, 30>>, <<128, 10, 20, 30>>}

\* buffers of one row
NormImages ==
    UNION {{Pixmap(n, 1, px) : px \in [0..(n - 1) -> NormColors]} :
              n \in 1..MaxNormPixels}

\* thresholds passed to rePiX::normalizeColors: 0, 0.5, 1, 2, 3
NormThresholds == {0, FX \div 2, FX, 2 * FX, 3 * FX}

\* a rePiX object after loadPixelatedImage, setSamplePointSize(1) and
\* restorePixelatedImage with the default block size and no margin
InitNormalize ==
    /\ originalImage \in NormImages
    /\ blockSize = FX
    /\ samplePointSize = 1
    /\ width = 0
    /\ height = 0
    /\ margin = 0
    /\ newImage = [createPixmap(originalImage.width, originalImage.height)
                     EXCEPT !.data = RestoredData(createPixmap(originalImage.width,
                                                     originalImage.height), FX)]
    /\ colorTable = DefaultColorTable
    /\ scale = 1
    /\ leaked = 0
    /\ cli = NoProcess
    /\ outFile = "untouched"
    /\ lib = NoCall
    /\ status = "running"
    /\ hist = History("restorePixelatedImage", NULL, FX)
    /\ calls = 1

\* one normalization of the restored buffer
NextNormalize ==
    /\ hist.op = "restorePixelatedImage"
    /\ \E threshold \in NormThresholds : normalizeColors(threshold)

SpecNormalize == InitNormalize /\ [][NextNormalize]_vars

\* ------------------------------------------------------------ applyOutline
\* mutant: the right neighbour tested with "x + y * w + 1 < w * h"
OutlineTargetsAcrossRows(i, w, h) ==
    LET x == i % w
        y == i \div w
    IN  (IF x > 0 THEN {i - 1} ELSE {})
        \cup (IF i + 1 < w * h THEN {i + 1} ELSE {})
        \cup (IF y > 0 THEN {i - w} ELSE {})
        \cup (IF y < h - 1 THEN {i + w} ELSE {})

\* the neighbours that the pixel at i = x + y * w may write
OutlineTargets(i, w, h) ==
    LET x == i % w
        y == i \div w
    IN  (IF x > 0 THEN {i - 1} ELSE {})
        \cup (IF x < w - 1 THEN {i + 1} ELSE {})
        \cup (IF y > 0 THEN {i - w} ELSE {})
        \cup (IF y < h - 1 THEN {i + w} ELSE {})

\* mutant: without "if (color == 0xFF000000) continue"
OutlineStepCascading(colors, i, w, h) ==
    IF colors[i] = Zero THEN colors
    ELSE [j \in DOMAIN colors |->
            IF j \in OutlineTargets(i, w, h) /\ colors[j] = Zero THEN Black ELSE colors[j]]

\* the body of the loops at pixel i; the four writes go to different pixels
OutlineStep(colors, i, w, h) ==
    IF colors[i] = Zero \/ colors[i] = Black THEN colors
    ELSE [j \in DOMAIN colors |->
            IF j \in OutlineTargets(i, w, h) /\ colors[j] = Zero THEN Black ELSE colors[j]]

RECURSIVE OutlineUpTo(_, _, _, _)
\* the buffer after the iterations at pixels 0 .. n - 1, row by row
OutlineUpTo(pixels, n, w, h) ==
    IF n = 0 THEN pixels
    ELSE OutlineStep(OutlineUpTo(pixels, n - 1, w, h), n - 1, w, h)

Outlined(pixels, w, h) == OutlineUpTo(pixels, w * h, w, h)

\* rePiX::applyOutline reads _newImage->data without a test
applyOutline ==
    /\ Call("applyOutline", newImage, 0)
    /\ IF newImage = NULL
       THEN /\ status' = "crashed"
            /\ newImage' = newImage
       ELSE /\ status' = status
            /\ newImage' = [newImage EXCEPT !.data =
                   Outlined(newImage.data, newImage.width, newImage.height)]
    /\ UNCHANGED <<originalImage, blockSize, samplePointSize, width, height,
                   margin, colorTable, scale, leaked, cli, outFile, lib>>

\* -------------------------------------------------------------- applyScale
setScale(value) ==
    /\ Call("set", NULL, 0)
    /\ scale' = IF value < 1 THEN 1 ELSE value
    /\ UNCHANGED <<originalImage, newImage, blockSize, samplePointSize, width,
                   height, margin, colorTable, status, leaked, cli, outFile, lib>>

\* w * h * (bitWidth / 8) of createPixmap does not fit an int
SizeOverflows(w, h) == w > 0 /\ h > 0 /\ w > (536870911 \div h)

\* dest[posX + posY * scaledImage->width] = color for posX = x * f + sx and
\* posY = y * f + sy: where the width field holds src.width * f, pixel
\* (X, Y) is written once, from source pixel (X div f, Y div f).  (Used
\* where the fields hold the products, or hold 0 and there is no pixel.)
ScaledData(img, src, f) ==
    [p \in DOMAIN img.data |->
        src.data[(p % img.width) \div f + ((p \div img.width) \div f) * src.width]]

\* mutant: createPixmap(image->width * scale, image->height, 32)
scaleImageWidthOnly(image, f) ==
    LET img == createPixmap(image.width * f, image.height)
    IN  Pixmap(img.width, img.height, ScaledData(img, image, f))

\* scaleImage with a buffer of 32 bits: the image createPixmap returns, filled
scaleImage(image, f) ==
    LET img == createPixmap(image.width * f, image.height * f)
    IN  Pixmap(img.width, img.height, ScaledData(img, image, f))

\* outcome "buffer": scaleImage returns an image; "null": it returns nullptr
\* (no buffer to scale, or malloc or calloc failed); "fault": the size passed
\* to calloc overflowed and the writes run past the allocation.  reset
\* releases the old buffer before _newImage is assigned.
applyScale(outcome) ==
    /\ Call("applyScale", newImage, scale)
    /\ \/ /\ outcome = "null"
          /\ newImage' = NULL
          /\ status' = status
       \/ /\ outcome = "buffer"
          /\ newImage # NULL
          /\ newImage' = scaleImage(newImage, scale)
          /\ status' = status
       \/ /\ outcome = "fault"
          /\ newImage # NULL
          /\ SizeOverflows(newImage.width * scale, newImage.height * scale)
          /\ newImage' = newImage
          /\ status' = "crashed"
    /\ UNCHANGED <<originalImage, blockSize, samplePointSize, width, height,
                   margin, colorTable, scale, leaked, cli, outFile, lib>>

\* ------------------------------------------- outline and scale: inputs
MaxMarks == 2

Red == <<255, 255, 0, 0>>

\* <<width, height>> of the working buffers
StyleShapes == {<<1, 1>>, <<3, 1>>, <<1, 3>>, <<2, 2>>, <<3, 2>>}

\* buffers of a shape that are 0 but for the pixels of marks
MarkedImages(shape, marks) ==
    {Pixmap(shape[1], shape[2],
            [i \in 0..(shape[1] * shape[2] - 1) |->
                IF i \in marks THEN px[i] ELSE Zero]) : px \in [marks -> {Black, Red}]}

\* buffers with at most MaxMarks pixels that are not 0
StyleImages ==
    UNION {UNION {MarkedImages(shape, marks) :
                     marks \in {m \in SUBSET (0..(shape[1] * shape[2] - 1)) :
                                   Cardinality(m) <= MaxMarks}} :
              shape \in StyleShapes}

\* values passed to setScale: 0 (taken as 1), 2 and 65536
ScaleValues == {0, 2, U16}

\* a rePiX object after loadPixelatedImage, setSamplePointSize(1) and
\* restorePixelatedImage with the default block size and no margin
InitStyle ==
    /\ originalImage \in StyleImages
    /\ blockSize = FX
    /\ samplePointSize = 1
    /\ scale = 1
    /\ width = 0
    /\ height = 0
    /\ margin = 0
    /\ newImage = [createPixmap(originalImage.width, originalImage.height)
                     EXCEPT !.data = RestoredData(createPixmap(originalImage.width,
                                                     originalImage.height), FX)]
    /\ colorTable = DefaultColorTable
    /\ leaked = 0
    /\ cli = NoProcess
    /\ outFile = "untouched"
    /\ lib = NoCall
    /\ status = "running"
    /\ hist = History("restorePixelatedImage", NULL, FX)
    /\ calls = 1

NextStyle ==
    \/ \E value \in ScaleValues : setScale(value)
    \/ \E outcome \in {"buffer", "null", "fault"} : applyScale(outcome)
    \/ applyOutline

SpecStyle == InitStyle /\ [][NextStyle]_vars

\* ------------------------------------------- postorize, then applyOutline
\* the stages in the order of the pipeline, from a restored buffer:
\* postorize, normalizeColors or not, applyOutline
NextOrder ==
    \/ /\ hist.op = "restorePixelatedImage"
       /\ \E levels \in Levels : postorize(levels)
    \/ /\ hist.op = "postorize"
       /\ \E threshold \in Thresholds : normalizeColors(threshold)
    \/ /\ hist.op \in {"postorize", "normalizeColors"}
       /\ applyOutline

SpecOrder == InitStyle /\ [][NextOrder]_vars

\* ------------------------------------------------------- main (main.cpp)
\* The program of main.cpp: cli holds argv, the locals of main and its
\* position; outFile is the state of the file at out_filename.  The buffers
\* of main are [bitWidth |-> 32] or NULL: their pixels play no part in the
\* control flow of main.
MaxArgs == 3

\* the arguments: options, an option that is not recognised, a file name
\* and a number
Tokens == {"-o", "-b", "-p", "-s", "-q", "-help", "-version", "in.png", "2"}

\* *argv[n] == '-'
IsOption(arg) == arg \in {"-o", "-b", "-p", "-s", "-q", "-help", "-version"}

\* atoi and atof of an argument: 2 for "2", 0 where no number starts
Atoi(arg) == IF arg = "2" THEN 2 ELSE 0
Atof(arg) == FX * Atoi(arg)

Buffer == [bitWidth |-> 32]

\* argv[1..argc-1] is args; argv[argc] is the null pointer
Argc(args) == Len(args) + 1

InitMain ==
    /\ \E args \in UNION {[1..k -> Tokens] : k \in 0..MaxArgs} :
          cli = [pc |-> "start", argv |-> args, n |-> 1,
                 in_filename |-> "", out_filename |-> "",
                 blockSize |-> FX, levels |-> 255, scale |-> 1,
                 image |-> NULL, restoredImage |-> NULL, scaledImage |-> NULL,
                 usage |-> FALSE, beyond |-> FALSE, code |-> 0]
    /\ outFile = "untouched"
    /\ lib = NoCall
    /\ originalImage = NULL
    /\ newImage = NULL
    /\ blockSize = FX
    /\ samplePointSize = 0
    /\ scale = 1
    /\ width = 0
    /\ height = 0
    /\ margin = 0
    /\ colorTable = DefaultColorTable
    /\ leaked = 0
    /\ status = "running"
    /\ hist = History("new", NULL, 0)
    /\ calls = 0

\* error(): the usage hint and exit(0)
UsageError == [cli EXCEPT !.pc = "exited", !.usage = TRUE, !.code = 0]

Return(code) == [cli EXCEPT !.pc = "exited", !.code = code]

\* if (argc == 1) { error(); return 0; }
StartMain ==
    /\ cli.pc = "start"
    /\ cli' = IF Argc(cli.argv) = 1 THEN UsageError ELSE [cli EXCEPT !.pc = "args"]
    /\ UNCHANGED <<object, outFile, lib>>

\* if (++n > argc) error(); then argv[n] is read and the loop continues.
\* At n = argc the element is the null pointer, and std::string, atof and
\* atoi read through it.
OptionValue(field, value) ==
    IF cli.n + 1 > Argc(cli.argv) THEN UsageError
    ELSE IF cli.n + 1 = Argc(cli.argv)
         THEN [cli EXCEPT !.pc = "fault", !.beyond = TRUE, !.n = cli.n + 1]
         ELSE [cli EXCEPT ![field] = value, !.n = cli.n + 2]

\* the argument after the one at n, where there is one
NextArg == IF cli.n + 1 < Argc(cli.argv) THEN cli.argv[cli.n + 1] ELSE ""

\* one iteration of the loop over argv, or its end
ParseArg ==
    /\ cli.pc = "args"
    /\ LET arg == cli.argv[cli.n]
       IN  cli' =
             IF cli.n >= Argc(cli.argv) THEN [cli EXCEPT !.pc = "check"]
             ELSE IF ~IsOption(arg)
                  THEN [cli EXCEPT !.in_filename = arg, !.n = cli.n + 1]
             ELSE IF arg = "-o" THEN OptionValue("out_filename", NextArg)
             ELSE IF arg = "-b" THEN OptionValue("blockSize", Atof(NextArg))
             ELSE IF arg = "-p" THEN OptionValue("levels", Atoi(NextArg))
             ELSE IF arg = "-s" THEN OptionValue("scale", Atoi(NextArg))
             ELSE IF arg \in {"-help", "-version"} THEN Return(0)
             ELSE UsageError
    /\ UNCHANGED <<object, outFile, lib>>

\* removeExtension(in_filename) + "@" + std::to_string(scale) + "x.png"
DefaultOutput(in_filename, f) == <<in_filename, "@", f, "x.png">>

\* info(), fileExists(in_filename) and the choice of out_filename
CheckInput(exists) ==
    /\ cli.pc = "check"
    /\ cli' = IF ~exists THEN Return(-1)
              ELSE [cli EXCEPT !.pc = "load",
                               !.out_filename =
                                  IF cli.out_filename = "" \/ cli.out_filename = cli.in_filename
                                  THEN DefaultOutput(cli.in_filename, cli.scale)
                                  ELSE cli.out_filename]
    /\ UNCHANGED <<object, outFile, lib>>

\* image = loadPNGGraphicFile(in_filename)
LoadImage(loaded) ==
    /\ cli.pc = "load"
    /\ cli' = IF loaded THEN [cli EXCEPT !.pc = "restore", !.image = Buffer]
              ELSE Return(-1)
    /\ UNCHANGED <<object, outFile, lib>>

\* restoredImage = restorePixelatedImage(image, blockSize) and, with a
\* buffer, posterizeImage.  With blockSize 0 the loops of
\* restorePixelatedImage add 0 to x and never end.
RestoreImage(allocated) ==
    /\ cli.pc = "restore"
    /\ cli' = IF ~allocated THEN [cli EXCEPT !.pc = "finish"]
              ELSE IF cli.blockSize = 0 THEN [cli EXCEPT !.pc = "looping"]
              ELSE [cli EXCEPT !.restoredImage = Buffer,
                               !.pc = IF cli.scale > 1 THEN "scale" ELSE "save"]
    /\ UNCHANGED <<object, outFile, lib>>

\* scaledImage = scaleImage(restoredImage, scale)
ScaleImage(allocated) ==
    /\ cli.pc = "scale"
    /\ cli' = IF allocated THEN [cli EXCEPT !.scaledImage = Buffer, !.pc = "save"]
              ELSE [cli EXCEPT !.pc = "finish"]
    /\ UNCHANGED <<object, outFile, lib>>

\* the file after saveImageAsPNGFile: outcome names the call that fails, or
\* "written".  fopen(filename, "wb") creates or empties the file before
\* anything else is tried.
saveImageAsPNGFile(image, outcome) ==
    IF outcome = "fopen" THEN outFile
    ELSE IF outcome \in {"write struct", "info struct"} THEN "truncated"
    ELSE IF image.bitWidth \notin {8, 24, 32} THEN "truncated"
    ELSE IF outcome = "png error" THEN "partial"
    ELSE "complete"

SaveOutcomes == {"fopen", "write struct", "info struct", "png error", "written"}

\* saveImageAsPNGFile of the scaled image or of the restored one; main does
\* not look at the result
SaveImage(outcome) ==
    /\ cli.pc = "save"
    /\ outFile' = saveImageAsPNGFile(IF cli.scale > 1 THEN cli.scaledImage
                                     ELSE cli.restoredImage, outcome)
    /\ cli' = [cli EXCEPT !.pc = "finish"]
    /\ UNCHANGED <<object, lib>>

\* the resets and return 0
FinishMain ==
    /\ cli.pc = "finish"
    /\ cli' = [Return(0) EXCEPT !.image = NULL, !.restoredImage = NULL,
                                !.scaledImage = NULL]
    /\ UNCHANGED <<object, outFile, lib>>

NextMain ==
    \/ StartMain
    \/ ParseArg
    \/ \E exists \in BOOLEAN : CheckInput(exists)
    \/ \E loaded \in BOOLEAN : LoadImage(loaded)
    \/ \E allocated \in BOOLEAN : RestoreImage(allocated)
    \/ \E allocated \in BOOLEAN : ScaleImage(allocated)
    \/ \E outcome \in SaveOutcomes : SaveImage(outcome)
    \/ FinishMain

SpecMain == InitMain /\ [][NextMain]_vars

\* ------------------------------------------------- restore, then scale
\* sources of 100 x 100 pixels of one colour
SolidImages == {Pixmap(100, 100, [i \in 0..9999 |-> color]) :
                   color \in {Red, <<255, 46, 37, 255>>, <<128, 10, 20, 30>>}}

\* a rePiX object after loadPixelatedImage, setBlockSize (10, 20 or 8),
\* setSamplePointSize and setScale (1 or 2)
InitPipeline ==
    /\ originalImage \in SolidImages
    /\ newImage = NULL
    /\ blockSize \in {10 * FX, 20 * FX, 8 * FX}
    /\ samplePointSize \in 0..MaxSample
    /\ scale \in {1, 2}
    /\ width = 0
    /\ height = 0
    /\ margin = 0
    /\ colorTable = DefaultColorTable
    /\ leaked = 0
    /\ cli = NoProcess
    /\ outFile = "untouched"
    /\ lib = NoCall
    /\ status = "running"
    /\ hist = History("set", NULL, 0)
    /\ calls = 0

\* the restoration, and the rescaling after it
NextPipeline ==
    \/ /\ hist.op = "set"
       /\ \E allocated \in BOOLEAN : restorePixelatedImage(allocated)
    \/ /\ hist.op = "restorePixelatedImage"
       /\ \E outcome \in {"buffer", "null", "fault"} : applyScale(outcome)

SpecPipeline == InitPipeline /\ [][NextPipeline]_vars

\* ------------------------------------------------ autoAdjustBlockSize
\* the float +infinity, which is not a value m * 2^e
Infinity == <<0, 255>>

\* floor(a) of a float 1 <= a < 2^24
F32Floor(a) == F32Trunc(a)

\* fractionalPart > 0.01 for the fractional part of a float 1 <= a < 2^23:
\* the double 0.01 exceeds 1/100 by less than 2^-58 and no float fraction
\* lies between the two
FractionExceedsHundredth(a) ==
    LET unit == Pow2(-a[2])
    IN  100 * (a[1] % unit) > unit

\* _blockSize -= 0.01 for a float 1 <= a < 2^23 whose fractional part exceeds
\* 0.01: the difference is rounded to the nearest float, which stays in the
\* binade of a; 1/100 is never half a unit of a float
F32LessHundredth(a) ==
    LET unit == Pow2(-a[2])
        down == IF unit % 100 > 50 THEN 1 ELSE 0
    IN  <<a[1] - unit \div 100 - down, a[2]>>

\* the value autoAdjustBlockSize leaves in _blockSize for an image that is
\* w >= 1 pixels wide; a block size above w, or an infinite one, makes
\* floor(width / floor(_blockSize)) zero and the quotient by it infinite
AdjustedBlockSize(w, bs) ==
    IF bs = Infinity THEN Infinity
    ELSE LET blocks == F32Floor(F32Div(F32FromInt(w),
                                       F32FromInt(F32Floor(bs))))
         IN  IF blocks = 0 THEN Infinity
             ELSE LET size == F32Div(F32FromInt(w), F32FromInt(blocks))
                  IN  IF FractionExceedsHundredth(size)
                      THEN F32LessHundredth(size)
                      ELSE size

\* floor(_originalImage->width / _blockSize), the number of columns that
\* restorePixelatedImage gives the working buffer, for a finite block size
BlockCount(w, bs) == F32Floor(F32Div(F32FromInt(w), bs))

autoAdjustBlockSize ==
    /\ Call("autoAdjustBlockSize", newImage, blockSize)
    /\ IF originalImage = NULL
       THEN status' = "crashed" /\ UNCHANGED blockSize
       ELSE /\ blockSize' = AdjustedBlockSize(originalImage.width, blockSize)
            /\ UNCHANGED status
    /\ UNCHANGED <<originalImage, newImage, samplePointSize, width, height,
                   margin, colorTable, scale, leaked, cli, outFile, lib>>

\* the widest source of the adjustment
MaxAdjustWidth == 204

\* sources of one row, 1 to MaxAdjustWidth pixels wide
AdjustImages == {Pixmap(w, 1, [i \in 0..(w - 1) |-> Zero]) :
                    w \in 1..MaxAdjustWidth}

\* the block sizes 1, 2, 2.5, 10 and 10.5 as floats
AdjustBlockSizes == {F32Div(F32FromInt(n), F32FromInt(2)) :
                        n \in {2, 4, 5, 20, 21}}

\* a rePiX object after loadPixelatedImage and setBlockSize; in this
\* specification _blockSize holds a float <<m, e>>
InitAdjust ==
    /\ originalImage \in AdjustImages
    /\ newImage = NULL
    /\ blockSize \in AdjustBlockSizes
    /\ samplePointSize = 0
    /\ scale = 1
    /\ width = 0
    /\ height = 0
    /\ margin = 0
    /\ colorTable = DefaultColorTable
    /\ leaked = 0
    /\ cli = NoProcess
    /\ outFile = "untouched"
    /\ lib = NoCall
    /\ status = "running"
    /\ hist = History("set", NULL, 0)
    /\ calls = 0

NextAdjust == autoAdjustBlockSize

SpecAdjust == InitAdjust /\ [][NextAdjust]_vars

\* ------------------------------------------- the functions of image.cpp
\* a TImage whose data pointer is null: the record has no data field
NoData(w, h, bits) == [width |-> w, height |-> h, bitWidth |-> bits]

\* image->data is not null
HasData(image) == "data" \in DOMAIN image

\* a pixmap of 8 bits a pixel: data[i] is the byte at index i
Pixmap8(w, h, bytes) == [width |-> w, height |-> h, bitWidth |-> 8, data |-> bytes]

\* mutant: the bit depth is tested after the output buffer is created
scaleImageReturnLateTest(image, f, allocated) ==
    IF image = NULL \/ ~HasData(image)
    THEN [returned |-> NULL, createPixmap |-> 0]
    ELSE IF ~allocated \/ image.bitWidth # 32
         THEN [returned |-> NULL, createPixmap |-> 1]
         ELSE [returned |-> scaleImage(image, f), createPixmap |-> 1]

\* what scaleImage returns and the number of calls of createPixmap it makes;
\* allocated: whether malloc and calloc of createPixmap return memory
scaleImageReturn(image, f, allocated) ==
    IF image = NULL \/ ~HasData(image)
    THEN [returned |-> NULL, createPixmap |-> 0]
    ELSE IF image.bitWidth # 32
         THEN [returned |-> NULL, createPixmap |-> 0]
         ELSE IF ~allocated
              THEN [returned |-> NULL, createPixmap |-> 1]
              ELSE [returned |-> scaleImage(image, f), createPixmap |-> 1]

\* a call scaleImage(image, f), the one call of a behaviour
CallScaleImage(image, f, allocated) ==
    /\ lib = NoCall
    /\ lib' = [op |-> "scaleImage", image |-> image, scale |-> f,
               result |-> scaleImageReturn(image, f, allocated)]
    /\ UNCHANGED <<object, cli, outFile>>

\* arguments of scaleImage: no image, images without data, of 8 and of 24
\* bits, and the buffers of the outline and scale inputs
ScaleArguments ==
    {NULL, NoData(2, 1, 32), NoData(0, 0, 8),
     Pixmap8(2, 1, [i \in 0..1 |-> 7]),
     [width |-> 1, height |-> 1, bitWidth |-> 24, data |-> [i \in 0..2 |-> 255]]}
    \cup StyleImages

\* ---------------------------------------------------------- the loaders
\* A file is the sequence of its bytes.  What a loader returns: NULL, an
\* image filled from the file, or the TImage that malloc returned with no
\* field assigned; thrown: a std::runtime_error was raised instead.
DecodedImage == [decoded |-> TRUE]
UninitialisedImage == [decoded |-> FALSE]
Returned(image) == [returned |-> image, thrown |-> FALSE]
Thrown == [returned |-> NULL, thrown |-> TRUE]

\* the first n bytes of a file, fewer if the file is shorter
FirstBytes(file, n) == SubSeq(file, 1, IF Len(file) < n THEN Len(file) ELSE n)

PNGSignature == <<137, 80, 78, 71, 13, 10, 26, 10>>

\* opened: the file can be opened; allocated: malloc returns memory;
\* decoded: libpng reads the rest of the file without an error
loadPNGGraphicFile(file, opened, allocated, decoded) ==
    IF ~allocated THEN Returned(NULL)
    ELSE IF ~opened THEN Thrown
    ELSE IF FirstBytes(file, 8) # PNGSignature THEN Thrown
    ELSE IF ~decoded THEN Thrown
    ELSE Returned(DecodedImage)

\* infile.read stores the bytes the file has; the rest of bip_header keeps
\* what the stack held, stale[1] and stale[2] for bfType
BfType(file, stale) == [k \in 1..2 |-> IF k <= Len(file) THEN file[k] ELSE stale[k]]

\* allocated: malloc of the TImage and of biSizeImage bytes return memory
loadBMPGraphicFile(file, opened, allocated, stale) ==
    IF ~opened THEN Returned(NULL)
    ELSE IF BfType(file, stale) # <<66, 77>> THEN Returned(NULL)
    ELSE IF ~allocated THEN Returned(NULL)
    ELSE Returned(DecodedImage)

RECURSIVE GetLine(_)
\* getline: the bytes before the first line feed
GetLine(file) ==
    IF file = <<>> \/ file[1] = 10 THEN <<>>
    ELSE <<file[1]>> \o GetLine(Tail(file))

\* allocated: malloc of the pixel data returns memory
loadPBMGraphicFile(file, opened, allocated) ==
    IF ~opened THEN Returned(NULL)
    ELSE IF GetLine(file) # <<80, 52>> THEN Returned(UninitialisedImage)
    ELSE IF ~allocated THEN Returned(NULL)
    ELSE Returned(DecodedImage)

\* the beginnings of a PNG, a BMP and a PBM file, whole and with a byte
\* changed
SampleFiles == {PNGSignature \o <<0>>,
                <<137, 80, 78, 71, 13, 10, 26, 11, 0>>,
                <<66, 77, 0>>, <<66, 66, 0>>,
                <<80, 52, 10, 50, 10>>, <<80, 53, 10>>, <<80, 52, 13, 10>>}

\* the files: every prefix of a sample, the empty file included
LoaderFiles == UNION {{SubSeq(f, 1, n) : n \in 0..Len(f)} : f \in SampleFiles}

CallLoader(loader, file, result) ==
    /\ lib = NoCall
    /\ lib' = [op |-> loader, file |-> file, result |-> result]
    /\ UNCHANGED <<object, cli, outFile>>

CallLoadPNG ==
    \E file \in LoaderFiles, opened, allocated, decoded \in BOOLEAN :
       CallLoader("loadPNGGraphicFile", file,
                  loadPNGGraphicFile(file, opened, allocated, decoded))

CallLoadBMP ==
    \E file \in LoaderFiles, opened, allocated \in BOOLEAN,
       stale \in {<<66, 77>>, <<0, 0>>} :
       CallLoader("loadBMPGraphicFile", file,
                  loadBMPGraphicFile(file, opened, allocated, stale))

CallLoadPBM ==
    \E file \in LoaderFiles, opened, allocated \in BOOLEAN :
       CallLoader("loadPBMGraphicFile", file,
                  loadPBMGraphicFile(file, opened, allocated))

\* ------------------------------------------------ convertPixmapTo8BitPixmap
\* a pixmap of 4 bits a pixel, two pixels in a byte
Pixmap4(w, h, bytes) == [width |-> w, height |-> h, bitWidth |-> 4, data |-> bytes]

\* what convertPixmapTo8BitPixmap returns for a pixmap with data, and its
\* accesses: size is the number of bytes malloc was asked for, read the
\* number of bytes taken through *src++ and written the number stored
\* through *dest++.  The loop runs width * height times and in each run
\* reads one byte and stores two; returned.data is the content of the size
\* bytes of the buffer.  allocated, dataAllocated: the two calls of malloc
\* return memory.
convertPixmapTo8BitPixmap(pixmap, allocated, dataAllocated) ==
    LET length == pixmap.width * pixmap.height
    IN  IF pixmap.bitWidth # 4 \/ ~allocated
        THEN [returned |-> NULL, size |-> 0, read |-> 0, written |-> 0]
        ELSE IF ~dataAllocated
        THEN [returned |-> NoData(pixmap.width, pixmap.height, 8),
              size |-> 0, read |-> 0, written |-> 0]
        ELSE [returned |->
                 Pixmap8(pixmap.width, pixmap.height,
                         [j \in 0..(length - 1) |->
                             IF j % 2 = 0 THEN pixmap.data[j \div 2] \div 16
                             ELSE pixmap.data[j \div 2] % 16]),
              size |-> length, read |-> length, written |-> 2 * length]

\* pixmaps of 4 bits with width * height / 2 bytes, and pixmaps of 2 and of
\* 8 bits
PackedPixmaps ==
    UNION {{Pixmap4(shape[1], shape[2], bytes) :
               bytes \in [0..((shape[1] * shape[2]) \div 2 - 1) -> {18, 171}]} :
              shape \in {<<0, 0>>, <<2, 1>>, <<2, 2>>, <<4, 1>>, <<2, 3>>}}
    \cup {[width |-> 4, height |-> 1, bitWidth |-> 2, data |-> [i \in 0..0 |-> 18]],
          Pixmap8(2, 1, [i \in 0..1 |-> 7])}

CallConvertPixmapTo8BitPixmap ==
    \E pixmap \in PackedPixmaps, allocated, dataAllocated \in BOOLEAN :
       /\ lib = NoCall
       /\ lib' = [op |-> "convertPixmapTo8BitPixmap", image |-> pixmap,
                  result |-> convertPixmapTo8BitPixmap(pixmap, allocated,
                                                       dataAllocated)]
       /\ UNCHANGED <<object, cli, outFile>>

\* ------------------------------------------------- loadAdobeColorTable
\* An Adobe colour table file: 256 colours of three bytes, then defined and
\* transparency, two bytes each, the most significant first.
\* The int16_t that two bytes in memory hold, read as they lie (first byte
\* least significant) or after swap_endian.
Int16(bytes, swapped) ==
    LET u == IF swapped THEN bytes[1] * 256 + bytes[2]
                        ELSE bytes[2] * 256 + bytes[1]
    IN  IF u >= 32768 THEN u - 65536 ELSE u

\* r << 24 | g << 16 | b << 8 | 255, byte-reversed where __LITTLE_ENDIAN__
\* is defined
TableColor(rgb, swapped) ==
    IF swapped THEN <<255, rgb[3], rgb[2], rgb[1]>>
    ELSE <<rgb[1], rgb[2], rgb[3], 255>>

\* the table after loadAdobeColorTable, and last, the highest index n of a
\* write _colors[n] (-1: none).  swapped: the build defines
\* __LITTLE_ENDIAN__.  A write at an index above 255 lands outside _colors
\* (in the compiled object on _transparency and _defined, which follow it);
\* the table is given as the assignments before the loop leave the fields.
loadAdobeColorTable(table, file, opened, swapped) ==
    IF ~opened THEN [table |-> table, last |-> -1]
    ELSE LET count == Int16(file.defined, swapped)
         IN  [table |->
                 [colors |-> [n \in 0..255 |->
                                 IF n < count THEN TableColor(file.colors[n], swapped)
                                 ELSE table.colors[n]],
                  defined |-> count,
                  transparency |-> Int16(file.transparency, swapped)],
              last |-> IF count > 0 THEN count - 1 ELSE -1]

\* the byte pairs of a 16-bit field: 0, 3, 255, 256, 257, 768, -1, 32767,
\* as written most significant byte first
FieldBytes == {<<0, 0>>, <<0, 3>>, <<0, 255>>, <<1, 0>>, <<1, 1>>, <<3, 0>>,
               <<255, 255>>, <<127, 255>>}

\* files of 772 bytes; colour n is (n, 0, 255 - n)
ColorTableFiles ==
    {[colors |-> [n \in 0..255 |-> <<n, 0, 255 - n>>],
      defined |-> d, transparency |-> t] : d, t \in FieldBytes}

\* a call of loadAdobeColorTable on a table as constructed
CallLoadAdobeColorTable ==
    \E file \in ColorTableFiles, opened, swapped \in BOOLEAN :
       LET result == loadAdobeColorTable(colorTable, file, opened, swapped)
       IN  /\ lib = NoCall
           /\ lib' = [op |-> "loadAdobeColorTable", opened |-> opened,
                      last |-> result.last]
           /\ colorTable' = result.table
           /\ UNCHANGED <<originalImage, newImage, blockSize, samplePointSize,
                          scale, width, height, margin, leaked, status, hist,
                          calls, cli, outFile>>

\* the bytes copyPixmap moves from (x, y) of src into a w by h pixmap at (0, 0)
copyPixmap(src, x, y, w, h) ==
    [i \in 0..(w * h - 1) |->
        src.data[(i % w) + x + ((i \div w) + y) * src.width]]

\* the value a loop leaves in a minimum that starts at start
LoopMin(start, values) ==
    CHOOSE m \in values \cup {start} : \A v \in values \cup {start} : m <= v

\* the value a loop leaves in a maximum that starts at start
LoopMax(start, values) ==
    CHOOSE m \in values \cup {start} : \A v \in values \cup {start} : m >= v

\* the positions of the pixels of an 8-bit image that differ from maskColor
Unmasked(image, maskColor) ==
    {i \in DOMAIN image.data : image.data[i] # maskColor}

\* extractImageSectionMasked: allocated tells whether createPixmap succeeded
extractImageSectionMasked(image, maskColor, allocated) ==
    IF image = NULL THEN NULL
    ELSE IF ~HasData(image) THEN NULL
    ELSE
      LET found == Unmasked(image, maskColor)
          minX == LoopMin(image.width - 1, {i % image.width : i \in found})
          maxX == LoopMax(0, {i % image.width : i \in found})
          minY == LoopMin(image.height - 1, {i \div image.width : i \in found})
          maxY == LoopMax(0, {i \div image.width : i \in found})
          w == maxX - minX + 1
          h == maxY - minY + 1
      IN  IF maxX < minX \/ maxY < minY THEN NULL
          ELSE IF ~allocated THEN NULL
          ELSE Pixmap8(w, h, copyPixmap(image, minX, minY, w, h))

\* the shapes of the 8-bit images passed to extractImageSectionMasked
MaskedShapes == {<<1, 1>>, <<3, 1>>, <<1, 3>>, <<2, 2>>, <<3, 2>>}

\* the pixel values of those images, and the mask colours
MaskedBytes == {0, 5}

MaskedImages ==
    {NULL, NoData(2, 2, 8)} \cup
    UNION {{Pixmap8(s[1], s[2], d) : d \in [0..(s[1] * s[2] - 1) -> MaskedBytes]} :
           s \in MaskedShapes}

CallExtractImageSectionMasked ==
    \E image \in MaskedImages, maskColor \in MaskedBytes, allocated \in BOOLEAN :
       /\ lib = NoCall
       /\ lib' = [op |-> "extractImageSectionMasked", image |-> image,
                  maskColor |-> maskColor, allocated |-> allocated,
                  result |-> extractImageSectionMasked(image, maskColor,
                                                       allocated)]
       /\ UNCHANGED <<object, cli, outFile>>

\* no rePiX object is in use: the functions are called on their own
InitImage ==
    /\ originalImage = NULL
    /\ newImage = NULL
    /\ blockSize = FX
    /\ samplePointSize = 0
    /\ scale = 1
    /\ width = 0
    /\ height = 0
    /\ margin = 0
    /\ colorTable = DefaultColorTable
    /\ leaked = 0
    /\ cli = NoProcess
    /\ outFile = "untouched"
    /\ lib = NoCall
    /\ status = "running"
    /\ hist = History("new", NULL, 0)
    /\ calls = 0

NextImage ==
    \/ \E image \in ScaleArguments, f \in 1..3, allocated \in BOOLEAN :
          CallScaleImage(image, f, allocated)
    \/ CallLoadPNG
    \/ CallLoadBMP
    \/ CallLoadPBM
    \/ CallConvertPixmapTo8BitPixmap
    \/ CallLoadAdobeColorTable
    \/ CallExtractImageSectionMasked

SpecImage == InitImage /\ [][NextImage]_vars

\* ------------------------------------------------------------------ claims
Restored == hist.op = "restorePixelatedImage" /\ status = "running"

\* floor(sourceWidth / blockSize) and floor(sourceHeight / blockSize)
BlocksAcross == (originalImage.width * FX) \div blockSize
BlocksDown == (originalImage.height * FX) \div blockSize

\* C1: for every source size, block size >= 1 and margin, the buffer that
\* restorePixelatedImage creates is 32 bits deep and its width and height
\* fields are floor(W/b) + 2*margin and floor(H/b) + 2*margin.
C1_BufferDimensions ==
    (Restored /\ blockSize >= FX) =>
        /\ newImage.bitWidth = 32
        /\ newImage.width = BlocksAcross + 2 * margin
        /\ newImage.height = BlocksDown + 2 * margin

\* pixel i of the working buffer lies in the margin border
InMargin(i) ==
    LET col == i % newImage.width
        row == i \div newImage.width
    IN  \/ col < margin
        \/ col >= margin + BlocksAcross
        \/ row < margin
        \/ row >= margin + BlocksDown

\* C2: with a margin >= 1 and a block size >= 1, dividing the source or
\* not, every pixel of the margin border is 0 after restorePixelatedImage.
C2_MarginStaysZero ==
    (Restored /\ margin >= 1 /\ blockSize >= FX) =>
        \A i \in DOMAIN newImage.data : InMargin(i) => newImage.data[i] = Zero

\* the source is made of b x b blocks of one colour each, b dividing both sides
SolidBlocks(b) ==
    /\ originalImage.width % b = 0
    /\ originalImage.height % b = 0
    /\ \A i \in DOMAIN originalImage.data :
          LET x == i % originalImage.width
              y == i \div originalImage.width
          IN  originalImage.data[i] =
                originalImage.data[(x \div b) * b + (y \div b) * b * originalImage.width]

RoundTripCase ==
    /\ Restored
    /\ samplePointSize = 1
    /\ blockSize % FX = 0
    /\ SolidBlocks(blockSize \div FX)

\* C3: restoring a source of solid b x b blocks (b an integer dividing W and
\* H) with sampleSize 1 puts the colour of block (dx, dy) at destination
\* pixel (dx + margin, dy + margin).
C3_RoundTrip ==
    RoundTripCase =>
        LET b == blockSize \div FX
        IN  \A dx \in 0..(originalImage.width \div b - 1) :
              \A dy \in 0..(originalImage.height \div b - 1) :
                 newImage.data[(dx + margin) + (dy + margin) * newImage.width]
                   = originalImage.data[dx * b + dy * b * originalImage.width]

\* a round trip over at least two blocks of different colours, with a margin
C3_Witness ==
    /\ RoundTripCase
    /\ blockSize = 2 * FX
    /\ margin >= 1
    /\ originalImage.width >= 4
    /\ originalImage.data[0] # originalImage.data[2]
    /\ newImage.data[(1 + margin) + margin * newImage.width] = originalImage.data[2]

RECURSIVE SumOfByte(_, _, _)
\* the sum of byte c of the pixels of data whose indices are in the set
SumOfByte(c, indices, data) ==
    IF indices = {} THEN 0
    ELSE LET i == CHOOSE j \in indices : TRUE
         IN  data[i][c] + SumOfByte(c, indices \ {i}, data)

\* the pixels of the source inside the s x s window that starts at
\* (x - s/2, y - s/2), a start that may be negative
InWindow(s, x, y) ==
    {i \in DOMAIN originalImage.data :
        LET px == i % originalImage.width
            py == i \div originalImage.width
        IN  /\ x - s \div 2 <= px /\ px < x - s \div 2 + s
            /\ y - s \div 2 <= py /\ py < y - s \div 2 + s}

C5_BlockSizeAtLeastOne ==
    Restored => blockSize >= FX

\* a buffer has been mapped to the colour table
MappedToTable == hist.op = "normalizeColorsToColorTable" /\ status = "running"

\* entry n of the table is at the minimum Euclidean RGB distance from color
\* among the defined entries, and no entry before it is as near
NearestEntry(color, n) ==
    \A k \in 0..(colorTable.defined - 1) :
       /\ SquaredDistance(color, colorTable.colors[n])
            <= SquaredDistance(color, colorTable.colors[k])
       /\ k < n => SquaredDistance(color, colorTable.colors[n])
                     < SquaredDistance(color, colorTable.colors[k])

\* C6: with at least one defined colour, the colour chosen for every pixel
\* (seen where no transparency substitution applies) is the defined entry at
\* the minimum Euclidean RGB distance, the lowest index among equals.
C6_NearestPaletteEntry ==
    (MappedToTable /\ colorTable.defined >= 1 /\ colorTable.transparency < 0) =>
        \A i \in DOMAIN newImage.data :
           \E n \in 0..(colorTable.defined - 1) :
              /\ NearestEntry(hist.pre.data[i], n)
              /\ newImage.data[i] = colorTable.colors[n]

\* C7: a pixel whose matched colour equals the entry at a transparency
\* index >= 0 becomes 0; with a negative transparency index every pixel is
\* its matched colour.
C7_TransparencySubstitution ==
    MappedToTable =>
        \A i \in DOMAIN newImage.data :
           LET matchedColor == MatchedColor(hist.pre.data[i], colorTable.colors,
                                            colorTable.defined)
           IN  /\ (colorTable.transparency >= 0
                   /\ matchedColor = colorTable.colors[colorTable.transparency])
                     => newImage.data[i] = Zero
               /\ colorTable.transparency < 0 => newImage.data[i] = matchedColor

\* a pixel that was not 0 matched entry 2, which equals the transparent
\* entry 4, and became 0
C7_Witness ==
    /\ MappedToTable
    /\ colorTable.transparency = 4
    /\ \E i \in DOMAIN newImage.data :
          /\ hist.pre.data[i] = <<255, 10, 20, 30>>
          /\ newImage.data[i] = Zero

\* a buffer has been posterized with at least two levels
Posterized == hist.op = "postorize" /\ hist.arg >= 2 /\ newImage # NULL

\* C8: for every level count L >= 2, posterizing a posterized buffer again
\* with L leaves it as it is.
C8_PosterizeIdempotent ==
    Posterized => Postorized(newImage.data, hist.arg) = newImage.data

\* trunc(255 * round((c / 255) / step) * step), step = 1 / (levels - 1), in
\* exact arithmetic; round() takes halves away from zero
QuantizedChannel(c, levels) ==
    LET k == (2 * c * (levels - 1) + 255) \div 510
    IN  (255 * k) \div (levels - 1)

\* C9: postorize with levels >= 2 sets the alpha byte of every pixel to
\* 0xFF and each colour channel c to trunc(255 * round((c/255)/step) * step),
\* step = 1/(levels-1).
C9_PosterizeFormula ==
    Posterized =>
        \A i \in DOMAIN newImage.data :
           /\ newImage.data[i][1] = 255
           /\ \A c \in 2..4 :
                 newImage.data[i][c] = QuantizedChannel(hist.pre.data[i][c], hist.arg)

\* a buffer has been normalized
NormalizedBuffer == hist.op = "normalizeColors" /\ status = "running"

\* the keys visited before the iteration at pixel k
Visited(k) ==
    {Key(NormalizeUpTo(hist.pre.data, j, hist.arg).colors[j]) : j \in 0..(k - 1)}

\* C10: pixels are taken in row-major order; a pixel whose RGB key has not
\* been visited is a representative, every other pixel at an Euclidean RGB
\* distance < threshold from it takes its full colour and no pixel at a
\* distance >= threshold is changed by it; a visited pixel changes nothing.
C10_ClusterRecolouring ==
    NormalizedBuffer =>
        /\ newImage.data = NormalizeUpTo(hist.pre.data, newImage.width * newImage.height,
                                         hist.arg).colors
        /\ \A k \in DOMAIN newImage.data :
              LET before == NormalizeUpTo(hist.pre.data, k, hist.arg).colors
                  after == NormalizeUpTo(hist.pre.data, k + 1, hist.arg).colors
                  representative == before[k]
              IN  IF Key(representative) \in Visited(k)
                  THEN after = before
                  ELSE \A j \in DOMAIN newImage.data :
                         after[j] =
                           IF j # k /\ SquaredDistance(representative, before[j])
                                         < hist.arg * hist.arg
                           THEN representative ELSE before[j]

\* with threshold 2 the first pixel gave its colour, alpha included, to a
\* pixel at distance 1
C10_Witness ==
    /\ NormalizedBuffer
    /\ hist.arg = 2
    /\ hist.pre.data[0] = <<255, 10, 20, 30>>
    /\ \E j \in DOMAIN newImage.data :
          /\ hist.pre.data[j] = <<128, 11, 20, 30>>
          /\ newImage.data[j] = <<255, 10, 20, 30>>

\* the outline has been applied to a buffer
OutlineApplied == hist.op = "applyOutline" /\ status = "running"

\* pixels i and j of a buffer of width w are 4-connected neighbours
Adjacent(i, j, w) ==
    LET dx == (i % w) - (j % w)
        dy == (i \div w) - (j \div w)
    IN  dx * dx + dy * dy = 1

\* pixel j of the buffer before the pass was 0 and had a 4-connected
\* neighbour that was neither 0 nor opaque black
Outlinable(j) ==
    /\ hist.pre.data[j] = Zero
    /\ \E i \in DOMAIN hist.pre.data :
          /\ Adjacent(i, j, hist.pre.width)
          /\ hist.pre.data[i] # Zero
          /\ hist.pre.data[i] # Black

\* C11: applyOutline changes only pixels that were 0 and have a 4-connected
\* neighbour that is neither 0 nor 0xFF000000, and each changed pixel
\* becomes 0xFF000000; no pixel that was not 0 changes.
C11_OutlineFrame ==
    OutlineApplied =>
        \A j \in DOMAIN newImage.data :
           newImage.data[j] # hist.pre.data[j] =>
              (Outlinable(j) /\ newImage.data[j] = Black)

\* two pixels of the second row were outlined by a pixel between them, and
\* the 0 pixel above a black pixel was left
C11_Witness ==
    /\ OutlineApplied
    /\ hist.pre.width = 3
    /\ hist.pre.height = 2
    /\ hist.pre.data[4] = Red
    /\ hist.pre.data[2] = Black
    /\ newImage.data[3] = Black
    /\ newImage.data[5] = Black
    /\ newImage.data[1] = Black
    /\ newImage.data[0] = Zero
    /\ hist.pre.data[3] = Zero

\* the pass as one generation: every pixel decided from the buffer as it
\* was before the pass
Generation == [j \in DOMAIN hist.pre.data |->
                  IF Outlinable(j) THEN Black ELSE hist.pre.data[j]]

\* the sweep over some buffer differs from its single generation
SweepDiffers(image) ==
    Outlined(image.data, image.width, image.height)
      # [j \in DOMAIN image.data |->
           IF /\ image.data[j] = Zero
              /\ \E i \in DOMAIN image.data :
                    /\ Adjacent(i, j, image.width)
                    /\ image.data[i] # Zero
                    /\ image.data[i] # Black
           THEN Black ELSE image.data[j]]

\* C12 as claimed: there is a buffer for which the row-major sweep gives a
\* result different from the computation that decides every pixel from the
\* buffer as it was before the pass.
C12_OrderDependent ==
    OutlineApplied => \E image \in StyleImages : SweepDiffers(image)

\* C12 as amended: the sweep gives the result of the single generation; a
\* pixel made black in the pass is skipped when the sweep reaches it.
C12_SingleGeneration ==
    OutlineApplied => newImage.data = Generation

\* a pixel made black lies between its source and a 0 pixel that the sweep
\* reaches later, and that pixel stays 0
C12_Witness ==
    /\ OutlineApplied
    /\ hist.pre.width = 3
    /\ hist.pre.data[0] = Red
    /\ hist.pre.data[1] = Zero
    /\ hist.pre.data[2] = Zero
    /\ newImage.data[1] = Black
    /\ newImage.data[2] = Zero

\* scaleImage has returned a buffer made from a buffer
Scaled ==
    /\ hist.op = "applyScale"
    /\ status = "running"
    /\ hist.pre # NULL
    /\ newImage # NULL

\* C13: for every buffer of width w and height h and every factor f >= 1
\* the result of scaleImage is w * f wide and h * f high, and its pixel
\* (X, Y) is source pixel (X div f, Y div f).
C13_ScaledBuffer ==
    Scaled =>
        LET f == hist.arg
            w == hist.pre.width
            h == hist.pre.height
        IN  /\ newImage.width = w * f
            /\ newImage.height = h * f
            /\ \A X \in 0..(w * f - 1) : \A Y \in 0..(h * f - 1) :
                  newImage.data[X + Y * (w * f)]
                    = hist.pre.data[(X \div f) + (Y \div f) * w]

\* C14: after any sequence of operations every allocated buffer is the
\* source buffer or the working buffer of the object: each buffer that an
\* operation replaced has been released.
C14_SingleOwnership == leaked = 0

\* C15: when createPixmap or scaleImage gives no buffer, no later step reads
\* or writes through the null working buffer.
C15_NoNullAccess == ~(status = "crashed" /\ newImage = NULL)

\* main has returned or called exit
Exited == cli.pc = "exited"

\* C16: at the end of every run either a complete output PNG has been
\* written or the output path has not been created or modified at all.
C16_NoPartialOutput == Exited => outFile \in {"untouched", "complete"}

RECURSIVE Scan(_, _)
\* what the arguments from k on ask for: the usage hint, for an option that
\* is not recognised or a last option without its value; help or version;
\* or a run
Scan(args, k) ==
    IF k > Len(args) THEN "run"
    ELSE IF args[k] \in {"-o", "-b", "-p", "-s"}
         THEN IF k = Len(args) THEN "usage" ELSE Scan(args, k + 2)
    ELSE IF args[k] \in {"-help", "-version"} THEN "help"
    ELSE IF IsOption(args[k]) THEN "usage"
    ELSE Scan(args, k + 1)

\* C17: an argument starting with '-' that is no option, and -o, -b, -p or
\* -s as the last argument, make main print the usage hint and exit with
\* status 0, and no argv element at an index >= argc is read.
C17_UsageOnBadArguments ==
    /\ cli.pc # "none" => ~cli.beyond
    /\ (cli.pc \notin {"none", "start", "args"} /\ Scan(cli.argv, 1) = "usage")
          => (Exited /\ cli.usage /\ cli.code = 0)

\* the working buffer was restored with block size 10 and sample size 1 and
\* no margin or target size, and then scaled by 2
EndToEndCase ==
    /\ Scaled
    /\ hist.arg = 2
    /\ blockSize = 10 * FX
    /\ samplePointSize = 1
    /\ margin = 0
    /\ width = 0
    /\ height = 0

\* C18: a 100 x 100 source of one colour, restored with block size 10 and
\* sample size 1 and scaled by 2, leaves a 20 x 20 working buffer whose
\* every pixel is the source colour, alpha included.
C18_EndToEnd ==
    EndToEndCase =>
        /\ newImage.width = 20
        /\ newImage.height = 20
        /\ \A i \in 0..399 : newImage.data[i] = originalImage.data[0]

\* the case with the opaque red source
C18_Witness ==
    /\ EndToEndCase
    /\ originalImage.data[0] = Red
    /\ newImage.data[399] = Red

\* autoAdjustBlockSize has returned
Adjusted == hist.op = "autoAdjustBlockSize" /\ status = "running"

C20_EmptyPaletteKeepsPixels ==
    (MappedToTable /\ colorTable.defined = 0 /\ colorTable.transparency = -1) =>
        newImage.data = hist.pre.data

\* a buffer with a pixel other than 0 has been mapped to the empty table
C20_Witness ==
    /\ MappedToTable
    /\ colorTable = DefaultColorTable
    /\ \E i \in DOMAIN newImage.data :
          /\ hist.pre.data[i] = <<255, 10, 20, 30>>
          /\ newImage.data[i] = <<255, 10, 20, 30>>

\* C21: scaleImage returns a null buffer, and has not called createPixmap,
\* whenever its image is null, has no pixel data or is not 32 bits deep.
C21_ScaleRejects ==
    (/\ lib.op = "scaleImage"
     /\ \/ lib.image = NULL
        \/ ~HasData(lib.image)
        \/ lib.image.bitWidth # 32) =>
        /\ lib.result.returned = NULL
        /\ lib.result.createPixmap = 0

\* scaleImage was given an 8-bit pixmap with data while memory was available
C21_Witness ==
    /\ lib.op = "scaleImage"
    /\ lib.image # NULL
    /\ HasData(lib.image)
    /\ lib.image.bitWidth = 8
    /\ lib.result.returned = NULL
    /\ \E image \in StyleImages :
          scaleImageReturn(image, lib.scale, TRUE).returned # NULL

\* the first bytes of the file are not those the format of the loader has
WrongSignature ==
    \/ lib.op = "loadPNGGraphicFile" /\ FirstBytes(lib.file, 8) # PNGSignature
    \/ lib.op = "loadBMPGraphicFile" /\ FirstBytes(lib.file, 2) # <<66, 77>>
    \/ lib.op = "loadPBMGraphicFile" /\ FirstBytes(lib.file, 2) # <<80, 52>>

\* C22: a loader given a file whose signature is wrong (not the PNG
\* signature, not "BM", not "P4") returns null or raises an error, never an
\* image.
C22_WrongSignatureRejected ==
    WrongSignature => (lib.result.thrown \/ lib.result.returned = NULL)

\* C23: convertPixmapTo8BitPixmap on a 4-bit pixmap of w x h pixels returns
\* an 8-bit pixmap of one byte a pixel: it writes exactly w*h bytes, all
\* inside the buffer of w*h bytes it allocated, and reads no more than the
\* w*h/2 bytes of its input.
C23_ConversionStaysInside ==
    (/\ lib.op = "convertPixmapTo8BitPixmap"
     /\ lib.image.bitWidth = 4
     /\ lib.result.returned # NULL
     /\ HasData(lib.result.returned)) =>
        LET length == lib.image.width * lib.image.height
        IN  /\ lib.result.returned.bitWidth = 8
            /\ lib.result.size = length
            /\ lib.result.written = length
            /\ lib.result.written <= lib.result.size
            /\ lib.result.read <= length \div 2

\* C24: after normalizeColorsToColorTable with at least one defined colour
\* every pixel is 0 or equals one of the defined entries of the table,
\* whatever its colour was before.
C24_PixelsFromPalette ==
    (MappedToTable /\ colorTable.defined >= 1) =>
        \A i \in DOMAIN newImage.data :
           \/ newImage.data[i] = Zero
           \/ \E n \in 0..(colorTable.defined - 1) :
                 newImage.data[i] = colorTable.colors[n]

\* C25: after normalizeColors with a threshold >= 1 any two pixels of
\* different colours are at a truncated Euclidean RGB distance >= threshold,
\* and pixels with the same 24-bit RGB value have the same 32-bit colour.
C25_NormalizedApart ==
    (NormalizedBuffer /\ hist.arg >= 1) =>
        \A i, j \in DOMAIN newImage.data :
           /\ newImage.data[i] # newImage.data[j] =>
                 colorDistance(newImage.data[i], newImage.data[j]) >= hist.arg
           /\ (/\ newImage.data[i][2] = newImage.data[j][2]
               /\ newImage.data[i][3] = newImage.data[j][3]
               /\ newImage.data[i][4] = newImage.data[j][4]) =>
                 newImage.data[i] = newImage.data[j]

\* with threshold 2 and pixels at distances 2 and 3 from the first: the
\* first changed nothing, the second gave its colour to the third
C25_Witness ==
    /\ NormalizedBuffer
    /\ hist.arg = 2
    /\ hist.pre.data = [i \in 0..2 |->
          IF i = 0 THEN <<255, 10, 20, 30>>
          ELSE IF i = 1 THEN <<255, 12, 20, 30>> ELSE <<255, 13, 20, 30>>]
    /\ newImage.data[0] = <<255, 10, 20, 30>>
    /\ newImage.data[1] = <<255, 12, 20, 30>>
    /\ newImage.data[2] = <<255, 12, 20, 30>>

\* C26: normalizeColors introduces no colour: for every buffer and
\* threshold each pixel ends with the colour some pixel of the buffer had
\* before the call, and with threshold 0 the buffer is unchanged.
C26_NoNewColour ==
    NormalizedBuffer =>
        /\ \A i \in DOMAIN newImage.data :
              \E j \in DOMAIN hist.pre.data : newImage.data[i] = hist.pre.data[j]
        /\ hist.arg = 0 => newImage.data = hist.pre.data

\* with threshold 2 a pixel took the colour, alpha included, of the pixel
\* before it
C26_Witness ==
    /\ NormalizedBuffer
    /\ hist.arg = 2
    /\ hist.pre.data[0] = <<128, 11, 20, 30>>
    /\ \E j \in DOMAIN newImage.data :
          /\ hist.pre.data[j] = <<255, 12, 20, 30>>
          /\ newImage.data[j] = <<128, 11, 20, 30>>

\* C27: after postorize no pixel of the working buffer is 0, every pixel
\* has alpha 0xFF, and applyOutline run after postorize, with no palette
\* mapping in between, changes no pixel.
C27_NoOutlineAfterPostorize ==
    /\ (hist.op = "postorize" /\ newImage # NULL) =>
          \A i \in DOMAIN newImage.data :
             newImage.data[i] # Zero /\ newImage.data[i][1] = 255
    /\ OutlineApplied => newImage.data = hist.pre.data

\* the outline ran over a posterized buffer in which a pixel restored as 0,
\* now 0xFF000000, lies next to a red one
C27_Witness ==
    /\ OutlineApplied
    /\ \E i, j \in DOMAIN newImage.data :
          /\ Adjacent(i, j, newImage.width)
          /\ originalImage.data[i] = Zero
          /\ newImage.data[i] = Black
          /\ newImage.data[j] = Red

\* C28: loadAdobeColorTable keeps the palette inside its 256 entries for
\* every file: it writes only at indices 0..255, and the defined count and
\* transparency index it publishes keep the reads palt[n], n < defined, and
\* palt[transparency] of the palette mapping at indices 0..255.
C28_TableStaysInside ==
    lib.op = "loadAdobeColorTable" =>
        /\ lib.last <= 255
        /\ colorTable.defined <= 256
        /\ colorTable.transparency <= 255

\* C29: for every loaded image of width W >= 1 and every block size set
\* before, larger than W included, the block size autoAdjustBlockSize leaves
\* is a finite number >= 1, and the restorePixelatedImage that follows gives
\* the buffer floor(W / blockSize) >= 1 columns.
C29_AdjustedFinite ==
    Adjusted =>
        /\ blockSize # Infinity
        /\ blockSize[1] >= Pow2(-blockSize[2])
        /\ BlockCount(originalImage.width, blockSize) >= 1

\* C30: called on an 8-bit image with memory available, extractImageSectionMasked
\* returns null exactly when no pixel differs from maskColor, and otherwise
\* a pixmap whose width and height are those of the tight bounding box of
\* the pixels that differ from maskColor.
C30_TightBox ==
    (/\ lib.op = "extractImageSectionMasked"
     /\ lib.image # NULL
     /\ HasData(lib.image)
     /\ lib.allocated) =>
        LET found == Unmasked(lib.image, lib.maskColor)
            xs == {i % lib.image.width : i \in found}
            ys == {i \div lib.image.width : i \in found}
        IN  /\ (lib.result = NULL) <=> (found = {})
            /\ found # {} =>
                 /\ \E a, b \in xs :
                       /\ \A x \in xs : a <= x /\ x <= b
                       /\ lib.result.width = b - a + 1
                 /\ \E a, b \in ys :
                       /\ \A y \in ys : a <= y /\ y <= b
                       /\ lib.result.height = b - a + 1

====
